---- MODULE Spec2Model ----
(***************************************************************************)
(* A model of the series-loading contract, the model specifications and    *)
(* the rolling forecast engine of ts-forecasting-pipeline.                 *)
(*                                                                         *)
(* Time is counted in ticks.  In the series-loading part one tick is 30    *)
(* minutes; in the forecasting part one tick is one hour after DATA_START. *)
(***************************************************************************)
EXTENDS Integers, Sequences, FiniteSets, TLC

VARIABLES
    specs,      \* series loading: the SeriesSpecs object (its fields, its stored series)
    calls       \* series loading: the load_series calls made so far, [ef, raw, out]

loadVars == <<specs, calls>>

VARIABLES
    query_rows, \* query-backed source: the rows query.all() returns
    db_out      \* query-backed source: the outcome of _load_series, once called

dbVars == <<query_rows, db_out>>

VARIABLES
    ctor_args,  \* model specifications: the arguments of the ModelSpecs constructor call
    ctor_out,   \* model specifications: "pending", or how the constructor call ended
    model_specs \* model specifications: the ModelSpecs objects that exist

msVars == <<ctor_args, ctor_out, model_specs>>

VARIABLES
    json_repr,  \* decoding: the parsed JSON object, [type, keys]
    decoded     \* decoding: <<>>, or <<the outcome of load_series_specs_from_json>>

jsonVars == <<json_repr, decoded>>

VARIABLES
    rolling,    \* rolling forecasts: the call's arguments, [start, end, specs]
    features,   \* rolling forecasts: the feature frame, timestamp -> row
    time_step,  \* rolling forecasts: the tick the loop is at
    model,      \* rolling forecasts: <<>> (None), or <<the fitted model>>
    forecasts,  \* rolling forecasts: the forecasts made so far, [t, value, lag_times]
    log,        \* rolling forecasts: the "Fitting new model" records, [t, rows]
    rolling_pc  \* rolling forecasts: "idle", "call", "loop", "done" or "failed"

rollVars == <<rolling, features, time_step, model, forecasts, log, rolling_pc>>

VARIABLES
    fc_args,    \* one forecast: the arguments of make_forecast_for, [specs, features, model]
    fc          \* one forecast: <<>>, or <<the value make_forecast_for returned>>

oneVars == <<fc_args, fc>>

vars == <<loadVars, dbVars, msVars, jsonVars, rollVars, oneVars>>

(***************************************************************************)
(* Bounds of the model.                                                    *)
(***************************************************************************)
MaxLen == 2        \* longest raw series
MaxFreq == 2       \* largest frequency, in ticks
MaxCalls == 2      \* load_series calls on one object
MaxRows == 3       \* rows a query returns
MaxHorizon == 1    \* largest horizon of a row
MaxTime == 4       \* latest start_of_training / end_of_testing, in hours

(***************************************************************************)
(* Values of a series: a finite number (a rational n/d, d > 0, in lowest   *)
(* terms), NaN, or +infinity.                                              *)
(***************************************************************************)
Num(n) == [k |-> "num", n |-> n, d |-> 1]
NaN == [k |-> "nan", n |-> 0, d |-> 1]
Inf == [k |-> "inf", n |-> 0, d |-> 1]

RECURSIVE Gcd(_, _)
Gcd(a, b) == IF b = 0 THEN a ELSE Gcd(b, a % b)

Abs(x) == IF x < 0 THEN -x ELSE x

Rat(n, d) ==
    LET g == Gcd(Abs(n), d)
    IN  [k |-> "num", n |-> n \div g, d |-> d \div g]

IsNull(v) == v.k = "nan"
IsFinite(v) == v.k = "num"

RECURSIVE SumNum(_)
SumNum(vs) ==
    \* the sum of the finite values of a sequence, as a rational
    IF vs = <<>> THEN Num(0)
    ELSE LET r == SumNum(Tail(vs))
             h == Head(vs)
         IN  IF h.k = "num" THEN Rat(h.n * r.d + r.n * h.d, h.d * r.d) ELSE r

SeqFilter(s, P(_)) == SelectSeq(s, P)

HasKind(vs, kind) == \E i \in 1..Len(vs) : vs[i].k = kind

CountNotNull(vs) == Cardinality({i \in 1..Len(vs) : ~IsNull(vs[i])})

(***************************************************************************)
(* pandas' aggregations over the values of one resampling bucket.          *)
(***************************************************************************)
AggMean(vs) ==
    \* Resampler.mean(): NaN values are skipped, an empty bucket gives NaN
    IF CountNotNull(vs) = 0 THEN NaN
    ELSE IF HasKind(vs, "inf") THEN Inf
    ELSE LET s == SumNum(vs) IN Rat(s.n, s.d * CountNotNull(vs))

AggSum(vs) ==
    \* Resampler.sum(): NaN values are skipped, an empty bucket gives 0
    IF HasKind(vs, "inf") THEN Inf ELSE SumNum(vs)

(***************************************************************************)
(* A pandas Series with its index:                                         *)
(*   dt    the index is a DatetimeIndex                                    *)
(*   tz    the index's timezone ("naive": none)                            *)
(*   freq  the index's freq attribute in ticks, 0 for None                 *)
(*   idx   the timestamps                                                  *)
(*   vals  the values                                                      *)
(***************************************************************************)
Series(dt, tz, freq, idx, vals) ==
    [dt |-> dt, tz |-> tz, freq |-> freq, idx |-> idx, vals |-> vals]

NoSeries == Series(FALSE, "naive", 0, <<>>, <<>>)

RegularIndex(start, freq, n) == [i \in 1..n |-> start + (i - 1) * freq]

Timezones == {"naive", "Europe/Amsterdam"}

RawValues == {Num(1), Num(4), NaN, Inf}

SeqsUpTo(S, n) == UNION {[1..m -> S] : m \in 0..n}

\* series as pd.date_range(start, periods=n, freq=f) builds them
RegularSeries ==
    {Series(TRUE, tz, f, RegularIndex(start, f, Len(vs)), vs) :
        tz \in Timezones, f \in 1..MaxFreq, start \in 0..1,
        vs \in SeqsUpTo(RawValues, MaxLen)}

\* series over a DatetimeIndex that has gaps or is unsorted: its freq is None
IrregularSeries ==
    {Series(TRUE, tz, 0, ix, [i \in 1..Len(ix) |-> Num(i)]) :
        tz \in Timezones, ix \in {<<0, 1, 3>>, <<2, 0>>}}

\* series over an index that is no DatetimeIndex (a RangeIndex)
UnindexedSeries ==
    {Series(FALSE, "naive", 0, RegularIndex(0, 1, Len(vs)), vs) :
        vs \in SeqsUpTo({Num(1)}, 1)}

(***************************************************************************)
(* Transformations (the tests' reversible transformations).                *)
(***************************************************************************)
NoTransformation == [kind |-> "none", p |-> 0]
MyAdditionTransformation(addition) == [kind |-> "add", p |-> addition]

transform_value(tr, v) ==
    IF v.k # "num" THEN v
    ELSE IF tr.kind = "add" THEN Rat(v.n + tr.p * v.d, v.d)
    ELSE v

transform_series(tr, vs) == [i \in 1..Len(vs) |-> transform_value(tr, vs[i])]

back_transform_flipped(tr, y) == IF tr.kind = "add" THEN y + tr.p ELSE y

\* on the integer forecasts of the forecasting part
back_transform(tr, y) == IF tr.kind = "add" THEN y - tr.p ELSE y

(***************************************************************************)
(* Resampling configuration: resampling_config is None, or a dict that may *)
(* hold "closed" and "aggregation".                                        *)
(***************************************************************************)
ResamplingConfigs ==
    {[isNone |-> TRUE, closed |-> "unset", aggregation |-> "unset"]}
    \cup {[isNone |-> FALSE, closed |-> "right", aggregation |-> "unset"],
          [isNone |-> FALSE, closed |-> "unset", aggregation |-> "sum"],
          [isNone |-> FALSE, closed |-> "unset", aggregation |-> "no_such_method"]}

NoResamplingConfig == CHOOSE rc \in ResamplingConfigs : rc.isNone

\* the no-argument methods inspect.getmembers finds on a pandas Resampler
ResamplerMethods == {"mean", "sum"}

(***************************************************************************)
(* Frequency strings.  One tick is 30 minutes: pandas writes whole hours   *)
(* as "<n>H" and everything else in minutes, "<m>T".                       *)
(***************************************************************************)
freqstr(f) == IF f % 2 = 0 THEN <<f \div 2, "H">> ELSE <<30 * f, "T">>

timedelta_to_pandas_freq_str(td) == freqstr(td)

(***************************************************************************)
(* data.resample(freq, closed=...).<aggregation>() on a series whose index *)
(* is sorted: buckets of width ef anchored at tick 0, labelled by their    *)
(* left edge; closed="right" buckets are (b, b + ef].                      *)
(***************************************************************************)
BucketOf(t, ef, closed) ==
    IF closed = "right" THEN ((t - 1) \div ef) * ef ELSE (t \div ef) * ef

InBucket(t, b, ef, closed) ==
    IF closed = "right" THEN b < t /\ t <= b + ef ELSE b <= t /\ t < b + ef

RECURSIVE PickValues(_, _, _, _, _)
PickValues(idx, vals, b, ef, closed) ==
    IF idx = <<>> THEN <<>>
    ELSE LET rest == PickValues(Tail(idx), Tail(vals), b, ef, closed)
         IN  IF InBucket(Head(idx), b, ef, closed) THEN <<Head(vals)>> \o rest ELSE rest

Aggregate(name, vs) == IF name = "sum" THEN AggSum(vs) ELSE AggMean(vs)

resample(data, ef, closed, aggregation) ==
    LET first == BucketOf(data.idx[1], ef, closed)
        last == BucketOf(data.idx[Len(data.idx)], ef, closed)
        n == ((last - first) \div ef) + 1
        labels == RegularIndex(first, ef, n)
    IN  Series(TRUE, data.tz, ef, labels,
               [i \in 1..n |->
                   Aggregate(aggregation, PickValues(data.idx, data.vals, labels[i], ef, closed))])

(***************************************************************************)
(* Outcomes of an operation: a returned value or a raised exception with   *)
(* the arguments its message was formatted with.                           *)
(***************************************************************************)
Returned(series) == [kind |-> "ok", series |-> series, args |-> <<>>]
Raised(exc, args) == [kind |-> exc, series |-> NoSeries, args |-> args]

SeriesSpecs_resample_data(self, data, expected_frequency) ==
    IF self.resampling_config.isNone
    THEN Returned(resample(data, expected_frequency, "left", "mean"))
    ELSE LET closed == IF self.resampling_config.closed = "unset" THEN "left"
                       ELSE self.resampling_config.closed
             agg == self.resampling_config.aggregation
         IN  IF agg = "unset"
             THEN Returned(resample(data, expected_frequency, closed, "mean"))
             ELSE IF agg \in ResamplerMethods
             THEN Returned(resample(data, expected_frequency, closed, agg))
             ELSE Raised("IncompatibleModelSpecs", <<agg>>)

(***************************************************************************)
(* SeriesSpecs objects: [cls, name, original_tz, transformation,           *)
(* resampling_config, data].  data is the stored series of an              *)
(* ObjectSeriesSpecs, and the column read from the pickled frame of a      *)
(* DFFileSeriesSpecs.                                                      *)
(***************************************************************************)
SeriesSpecs__init__(cls, name, original_tz, transformation, resampling_config, data) ==
    [cls |-> cls, name |-> name, original_tz |-> original_tz,
     transformation |-> transformation, resampling_config |-> resampling_config,
     data |-> data]

\* the constructor's outcome: the object, or the exception raised
ObjectSeriesSpecs__init__(data, name, original_tz, transformation, resampling_config) ==
    IF ~data.dt
    THEN [kind |-> "IncompatibleModelSpecs", obj |-> {}]
    ELSE [kind |-> "ok",
          obj |-> {SeriesSpecs__init__("ObjectSeriesSpecs", name, original_tz,
                                       transformation, resampling_config, data)}]

DFFileSeriesSpecs__init__(file, name, original_tz, transformation, resampling_config) ==
    SeriesSpecs__init__("DFFileSeriesSpecs", name, original_tz, transformation,
                        resampling_config, file)

SeriesSpecs__load_series(self) ==
    IF self.cls = "SeriesSpecs"
    THEN NoSeries                  \* pd.Series(): empty, over a plain index
    ELSE self.data                 \* the stored series / the frame's column

tz_localize(data, tz) == [data EXCEPT !.tz = tz]

\* a load that writes its result back into the stored series
StoredAfterLoad_in_place(self, localized, result) ==
    IF self.cls = "ObjectSeriesSpecs" THEN result ELSE self.data

\* The series the object holds after a load.  _load_series of an
\* ObjectSeriesSpecs returns the stored series itself, so the assignment to
\* data.index changes the stored series; the result is a new series.
StoredAfterLoad(self, localized, result) ==
    IF self.cls = "ObjectSeriesSpecs" THEN localized ELSE self.data

\* load_series: [out |-> the outcome, self |-> the object afterwards]
SeriesSpecs_load_series(self, expected_frequency) ==
    LET data == SeriesSpecs__load_series(self)
    IN  IF ~data.dt
        THEN [out |-> Raised("IncompatibleModelSpecs", <<"Index">>), self |-> self]
        ELSE
        LET tz == IF data.tz = "naive" THEN "UTC" ELSE data.tz
            localized == IF data.tz = "naive" THEN tz_localize(data, tz) ELSE data
            self1 == [self EXCEPT !.original_tz = tz]
            stop(out) == [out |-> out,
                          self |-> [self1 EXCEPT !.data = StoredAfterLoad(self, localized, localized)]]
        IN  IF localized.idx = <<>>
            THEN stop(Raised("ValueError", <<>>))      \* the message's %s is left unformatted
            ELSE IF \E i \in 1..Len(localized.vals) : IsNull(localized.vals[i])
            THEN stop(Raised("ValueError", <<>>))      \* the message's %s is left unformatted
            ELSE IF localized.freq = 0
            THEN stop(Raised("AttributeError", <<"freqstr">>))   \* data.index.freq is None
            ELSE
            LET resampled ==
                    IF freqstr(localized.freq) # timedelta_to_pandas_freq_str(expected_frequency)
                    THEN SeriesSpecs_resample_data(self1, localized, expected_frequency)
                    ELSE Returned(localized)
            IN  IF resampled.kind # "ok"
                THEN stop(resampled)
                ELSE
                LET result ==
                        IF self1.transformation.kind # "none"
                        THEN Series(TRUE, resampled.series.tz, resampled.series.freq,
                                    resampled.series.idx,
                                    transform_series(self1.transformation, resampled.series.vals))
                        ELSE resampled.series
                IN  [out |-> Returned(result),
                     self |-> [self1 EXCEPT !.data = StoredAfterLoad(self, localized, result)]]

(***************************************************************************)
(* Series loading as a state machine: an object is constructed, then       *)
(* load_series is called on it repeatedly.                                 *)
(***************************************************************************)
Transformations == {NoTransformation, MyAdditionTransformation(7)}

ConstructedSpecs ==
    UNION {ObjectSeriesSpecs__init__(data, "my_outcome", "None", tr, rc).obj :
              data \in RegularSeries \cup IrregularSeries \cup UnindexedSeries,
              tr \in Transformations, rc \in ResamplingConfigs}
    \cup {DFFileSeriesSpecs__init__(file, "my_outcome", "None", NoTransformation,
                                    CHOOSE rc \in ResamplingConfigs : rc.isNone) :
              file \in RegularSeries \cup IrregularSeries \cup UnindexedSeries}
    \cup {SeriesSpecs__init__("SeriesSpecs", "my_outcome", "None", NoTransformation,
                              CHOOSE rc \in ResamplingConfigs : rc.isNone, NoSeries)}

LoadIdle == specs = {} /\ calls = <<>>

DBIdle == query_rows = <<>> /\ db_out = <<>>

MSIdle == ctor_args = <<>> /\ ctor_out = "pending" /\ model_specs = {}

JsonIdle == json_repr = <<>> /\ decoded = <<>>

RollIdle ==
    /\ rolling = <<>> /\ features = <<>> /\ time_step = 0 /\ model = <<>>
    /\ forecasts = <<>> /\ log = <<>> /\ rolling_pc = "idle"

OneIdle == fc_args = <<>> /\ fc = <<>>

LoadInit ==
    /\ specs \in {{o} : o \in ConstructedSpecs}
    /\ calls = <<>>
    /\ DBIdle /\ MSIdle /\ JsonIdle /\ RollIdle /\ OneIdle

TheSpecs == CHOOSE o \in specs : TRUE

LoadSeries(expected_frequency) ==
    /\ Len(calls) < MaxCalls
    /\ LET r == SeriesSpecs_load_series(TheSpecs, expected_frequency)
       IN  /\ specs' = {r.self}
           /\ calls' = Append(calls, [ef |-> expected_frequency,
                                      raw |-> SeriesSpecs__load_series(TheSpecs),
                                      out |-> r.out])
    /\ UNCHANGED <<dbVars, msVars, jsonVars, rollVars, oneVars>>

LoadNext == \E ef \in 1..MaxFreq : LoadSeries(ef)

SpecLoad == LoadInit /\ [][LoadNext]_vars

(***************************************************************************)
(* Properties of a returned series.                                        *)
(***************************************************************************)
TimezoneAware(series) == series.dt /\ series.tz # "naive"

RegularlySpaced(series, ef) ==
    \A i \in 1..(Len(series.idx) - 1) : series.idx[i + 1] - series.idx[i] = ef

AllFinite(series) == \A i \in 1..Len(series.vals) : IsFinite(series.vals[i])

BadRaw(raw) ==
    raw.idx = <<>> \/ \E i \in 1..Len(raw.vals) : ~IsFinite(raw.vals[i])

(* C1: whenever load_series returns a series, the series is timezone-aware, *)
(* its timestamps are strictly increasing and exactly expected_frequency    *)
(* apart, and it holds no NaN and no non-finite value, also after a         *)
(* resampling.  The code breaks this: a resampling to a finer frequency     *)
(* leaves NaN in the new buckets, and infinite values pass the null check.  *)
C1_PostLoadInvariant ==
    \A i \in 1..Len(calls) :
        calls[i].out.kind = "ok" =>
            /\ TimezoneAware(calls[i].out.series)
            /\ RegularlySpaced(calls[i].out.series, calls[i].ef)
            /\ AllFinite(calls[i].out.series)

\* a load of a good raw series that was resampled and returned
C1_ResampledLoadReturned ==
    \E i \in 1..Len(calls) :
        /\ calls[i].out.kind = "ok"
        /\ ~BadRaw(calls[i].raw)
        /\ calls[i].raw.freq # calls[i].ef
        /\ Len(calls[i].out.series.idx) > Len(calls[i].raw.idx)

(* C2: two successive load_series calls with the same expected_frequency on *)
(* an ObjectSeriesSpecs have the same outcome: when the first returns a     *)
(* series, the second returns the identical series (index, timezone,        *)
(* values), whatever the first call did to original_tz and to the stored    *)
(* series' index.                                                           *)
C2_LoadIdempotent ==
    \A i \in 1..Len(calls) : \A j \in 1..Len(calls) :
        (/\ TheSpecs.cls = "ObjectSeriesSpecs"
         /\ i < j
         /\ calls[i].ef = calls[j].ef)
        => calls[j].out = calls[i].out

\* two loads of a stored timezone-naive series that is resampled and transformed
C2_TwoLoadsWitness ==
    /\ Len(calls) >= 2
    /\ TheSpecs.cls = "ObjectSeriesSpecs"
    /\ calls[1].ef = calls[2].ef
    /\ calls[1].raw.tz = "naive"
    /\ calls[2].raw.tz # "naive"
    /\ calls[1].raw.freq # calls[1].ef
    /\ TheSpecs.transformation.kind # "none"
    /\ calls[1].out.kind = "ok"
    /\ calls[2].out.kind = "ok"

(* C3: a load whose raw series (over a DatetimeIndex) is empty or holds a   *)
(* missing or non-finite value raises the data-quality error (ValueError),  *)
(* the error names the series, and no series is returned.  The code breaks  *)
(* this: the messages' %s is never formatted, so the error names nothing,   *)
(* and an infinite value passes the null check and is returned.             *)
C3_BadDataRaisesNamedError ==
    \A i \in 1..Len(calls) :
        (calls[i].raw.dt /\ BadRaw(calls[i].raw)) =>
            /\ calls[i].out.kind = "ValueError"
            /\ \E k \in 1..Len(calls[i].out.args) : calls[i].out.args[k] = TheSpecs.name

\* a load of a raw series that holds NaN has raised
C3_BadLoadWitness ==
    \E i \in 1..Len(calls) :
        /\ calls[i].raw.dt
        /\ \E k \in 1..Len(calls[i].raw.vals) : IsNull(calls[i].raw.vals[k])
        /\ calls[i].out.kind = "ValueError"

(***************************************************************************)
(* The query-backed source.  A row is [datetime, value, horizon]; a        *)
(* datetime as the database returns it is a wall-clock time with a UTC     *)
(* offset (0 for the naive datetimes postgres stores).                     *)
(***************************************************************************)
RawDatetimes ==
    {[wall |-> 1, off |-> 0], [wall |-> 2, off |-> 1], [wall |-> 2, off |-> 0]}

to_datetime_utc(d) == d.wall - d.off

QueryRows ==
    [datetime : RawDatetimes, value : {Num(1), Num(4)}, horizon : 0..MaxHorizon]
    \cup {[datetime |-> [wall |-> 1, off |-> 0], value |-> NaN, horizon |-> 0]}

\* the frame after df["datetime"] = pd.to_datetime(df["datetime"], utc=True)
ConvertDatetimes(rows) ==
    [i \in 1..Len(rows) |->
        [datetime |-> to_datetime_utc(rows[i].datetime),
         value |-> rows[i].value, horizon |-> rows[i].horizon]]

RECURSIVE SortedOrders(_, _)
SortedOrders(keys, S) ==
    \* every order of the positions S that is ascending in keys
    IF S = {} THEN {<<>>}
    ELSE UNION {{<<i>> \o rest : rest \in SortedOrders(keys, S \ {i})} :
                   i \in {m \in S : \A o \in S : keys[m] <= keys[o]}}

Reorder(df, f) == [i \in 1..Len(df) |-> df[f[i]]]

\* sort_values(by=["horizon"], ascending=False)
sort_values_by_horizon_descending(df) ==
    {Reorder(df, f) :
        f \in SortedOrders([i \in 1..Len(df) |-> 0 - df[i].horizon], 1..Len(df))}

\* sort_values(by=["horizon"], ascending=True): the default sort is not
\* stable, so rows of equal horizon may come out in any order
sort_values_by_horizon(df) ==
    {Reorder(df, f) :
        f \in SortedOrders([i \in 1..Len(df) |-> df[i].horizon], 1..Len(df))}

\* sort_values(by=["datetime"]), every possible order of equal datetimes
sort_values_by_datetime(df) ==
    {Reorder(df, f) :
        f \in SortedOrders([i \in 1..Len(df) |-> df[i].datetime], 1..Len(df))}

IsFirstOfDatetime(df, i) == \A j \in 1..(i - 1) : df[j].datetime # df[i].datetime

IsLastOfDatetime(df, i) == \A j \in (i + 1)..Len(df) : df[j].datetime # df[i].datetime

RECURSIVE KeepRows(_, _, _)
KeepRows(df, keep, i) ==
    IF i > Len(df) THEN <<>>
    ELSE (IF i \in keep THEN <<df[i]>> ELSE <<>>) \o KeepRows(df, keep, i + 1)

\* drop_duplicates(subset=["datetime"], keep="last")
drop_duplicates_keep_last(df) ==
    KeepRows(df, {i \in 1..Len(df) : IsLastOfDatetime(df, i)}, 1)

\* drop_duplicates(subset=["datetime"], keep="first")
drop_duplicates(df) ==
    KeepRows(df, {i \in 1..Len(df) : IsFirstOfDatetime(df, i)}, 1)

\* _load_series of a DBSeriesSpecs: the set of its possible outcomes
DBSeriesSpecs__load_series(rows) ==
    LET df == ConvertDatetimes(rows)
    IN  IF df = <<>>
        THEN {Raised("ValueError", <<"tablename", "query">>)}
        ELSE IF \E i \in 1..Len(df) : IsNull(df[i].value)
        THEN {Raised("ValueError", <<"tablename", "query">>)}
        ELSE {Returned(Series(TRUE, "UTC", 0,
                              [i \in 1..Len(series) |-> series[i].datetime],
                              [i \in 1..Len(series) |-> series[i].value])) :
                series \in UNION {sort_values_by_datetime(drop_duplicates(sorted)) :
                                     sorted \in sort_values_by_horizon(df)}}

DBInit ==
    /\ query_rows \in SeqsUpTo(QueryRows, MaxRows)
    /\ db_out = <<>>
    /\ LoadIdle /\ MSIdle /\ JsonIdle /\ RollIdle /\ OneIdle

DBLoadSeries ==
    /\ db_out = <<>>
    /\ \E out \in DBSeriesSpecs__load_series(query_rows) : db_out' = Append(db_out, out)
    /\ UNCHANGED <<query_rows, loadVars, msVars, jsonVars, rollVars, oneVars>>

DBNext == DBLoadSeries

SpecDB == DBInit /\ [][DBNext]_vars

Instants(rows) == {to_datetime_utc(rows[i].datetime) : i \in 1..Len(rows)}

RowsAt(rows, t) == {i \in 1..Len(rows) : to_datetime_utc(rows[i].datetime) = t}

CleanRows(rows) == rows # <<>> /\ \A i \in 1..Len(rows) : ~IsNull(rows[i].value)

(* C9: for every non-empty, NaN-free set of query rows, _load_series        *)
(* returns exactly one value per distinct datetime, the value of a row      *)
(* whose horizon is the smallest among the rows of that datetime, in        *)
(* ascending datetime order with no timestamp twice.                        *)
C9_DedupKeepsSmallestHorizon ==
    \A c \in 1..Len(db_out) :
        CleanRows(query_rows) =>
            LET out == db_out[c].series
            IN  /\ db_out[c].kind = "ok"
                /\ Len(out.idx) = Cardinality(Instants(query_rows))
                /\ {out.idx[k] : k \in 1..Len(out.idx)} = Instants(query_rows)
                /\ \A k \in 1..(Len(out.idx) - 1) : out.idx[k] < out.idx[k + 1]
                /\ \A k \in 1..Len(out.idx) :
                      \E i \in RowsAt(query_rows, out.idx[k]) :
                          /\ query_rows[i].value = out.vals[k]
                          /\ \A j \in RowsAt(query_rows, out.idx[k]) :
                                query_rows[i].horizon <= query_rows[j].horizon

\* a load of rows where one datetime (the same instant under two offsets)
\* occurs with two horizons and two values, the larger horizon first
C9_DuplicatesWitness ==
    /\ Len(db_out) >= 1
    /\ db_out[1].kind = "ok"
    /\ Len(query_rows) = 3
    /\ Len(db_out[1].series.idx) = 2
    /\ \E i, j \in 1..Len(query_rows) :
          /\ i < j
          /\ query_rows[i].datetime # query_rows[j].datetime
          /\ to_datetime_utc(query_rows[i].datetime) = to_datetime_utc(query_rows[j].datetime)
          /\ query_rows[i].horizon > query_rows[j].horizon
          /\ query_rows[i].value # query_rows[j].value

(***************************************************************************)
(* Decoding a serialized SeriesSpecs.  The module's global namespace, by   *)
(* what each name is bound to: a callable with its required and its        *)
(* accepted keyword arguments, or something that cannot be called.         *)
(***************************************************************************)
SeriesKwargs == {"name", "original_tz", "transformation", "resampling_config"}

Callable(required, accepted) ==
    [callable |-> TRUE, required |-> required, accepted |-> accepted]

NotCallable == [callable |-> FALSE, required |-> {}, accepted |-> {}]

SeriesTypes ==
    {"SeriesSpecs", "ObjectSeriesSpecs", "CSVFileSeriesSpecs", "DFFileSeriesSpecs",
     "DBSeriesSpecs"}

GlobalNames ==
    SeriesTypes \cup {"ModelSpecs", "timedelta", "tz_aware_utc_now", "json",
                      "DEFAULT_RATIO_TRAINING_TESTING_DATA"}

globals(name) ==
    CASE name \in {"SeriesSpecs", "CSVFileSeriesSpecs"} ->
            Callable({"name"}, SeriesKwargs)
      [] name = "ObjectSeriesSpecs" ->
            Callable({"data", "name"}, SeriesKwargs \cup {"data"})
      [] name = "DFFileSeriesSpecs" ->
            Callable({"file_path", "name"}, SeriesKwargs \cup {"file_path", "column"})
      [] name = "DBSeriesSpecs" ->
            Callable({"db_engine", "query"}, SeriesKwargs \cup {"db_engine", "query"})
      [] name = "ModelSpecs" ->
            Callable({"outcome_var", "model", "start_of_training", "end_of_testing",
                      "frequency", "horizon"},
                     {"outcome_var", "model", "start_of_training", "end_of_testing",
                      "frequency", "horizon", "lags", "regressors",
                      "ratio_training_testing_data", "remodel_frequency",
                      "model_filename", "creation_time"})
      [] name = "timedelta" ->
            Callable({}, {"days", "seconds", "microseconds", "milliseconds", "minutes",
                          "hours", "weeks"})
      [] name = "tz_aware_utc_now" -> Callable({}, {})
      [] OTHER -> NotCallable

Decoded(kind, made) == [kind |-> kind, made |-> made]

\* series_class = globals()[json_repr["__series_type__"]]
series_class_lookup(name) ==
    IF name \in GlobalNames THEN Decoded("ok", name) ELSE Decoded("KeyError", "none")

\* load_series_specs_from_json on the parsed object [type, keys]: what was
\* raised, or the name of what was called and returned an object
load_series_specs_from_json(repr) ==
    LET found == series_class_lookup(repr.type)
        kwargs == repr.keys
    IN  IF found.kind # "ok" THEN found
        ELSE IF found.made = "ObjectSeriesSpecs" /\ ~({"data", "original_tz"} \subseteq kwargs)
        THEN Decoded("KeyError", "none")       \* json_repr["data"], json_repr["original_tz"]
        ELSE IF ~globals(found.made).callable
        THEN Decoded("TypeError", "none")      \* not callable
        ELSE IF ~(globals(found.made).required \subseteq kwargs
                  /\ kwargs \subseteq globals(found.made).accepted)
        THEN Decoded("TypeError", "none")      \* missing or unexpected keyword argument
        ELSE Decoded("ok", found.made)

(***************************************************************************)
(* ModelSpecs.  Times are hours after DATA_START, durations are hours.     *)
(* A datetime argument is a datetime or a string dateutil parses.          *)
(***************************************************************************)
DEFAULT_REMODELING_FREQUENCY == 24

Datetime(t) == [kind |-> "datetime", t |-> t, text |-> <<>>]
DatetimeString(t) == [kind |-> "str", t |-> 0, text |-> <<"T+", t, "h">>]

dateutil_parse(arg) == arg.text[2]

timedelta_fits_into(time_window, of_time_window) == of_time_window % time_window = 0

\* the check with its two arguments in the wrong order
WindowFitsFrequency_swapped(frequency, start_of_training, end_of_testing) ==
    /\ end_of_testing - start_of_training > 0
    /\ timedelta_fits_into(end_of_testing - start_of_training, frequency)

WindowFitsFrequency(frequency, start_of_training, end_of_testing) ==
    timedelta_fits_into(frequency, end_of_testing - start_of_training)

(***************************************************************************)
(* The regressors argument: a list of Python values, each a pd.Series, a   *)
(* SeriesSpecs object or a JSON string.  id tells objects apart; val is    *)
(* the series, the object, or the parsed JSON object [type, keys, name].   *)
(***************************************************************************)
PySeries(id, data) == [type |-> "Series", id |-> id, val |-> data]
PySpecs(id, obj) == [type |-> "SeriesSpecs", id |-> id, val |-> obj]
PyStr(repr) == [type |-> "str", id |-> 0, val |-> repr]

\* bool(x == r) as list.index evaluates it: the same object is equal; a
\* comparison with a pd.Series gives a Series, whose truth value raises
\* ValueError; SeriesSpecs objects define no __eq__
py_eq(x, r) ==
    IF x.type = "str" /\ r.type = "str"
    THEN IF x.val = r.val THEN "True" ELSE "False"
    ELSE IF x.type # "str" /\ r.type # "str" /\ x.id = r.id THEN "True"
    ELSE IF "Series" \in {x.type, r.type} THEN "ValueError"
    ELSE "False"

\* regressors.index(r) for the r at position i, searching from position j:
\* the (0-based) index of the first element equal to r, -1 for a ValueError
RECURSIVE list_index(_, _, _)
list_index(list, i, j) ==
    IF j > Len(list) THEN -1
    ELSE LET c == py_eq(list[j], list[i])
         IN  IF c = "True" THEN j - 1
             ELSE IF c = "ValueError" THEN -1
             ELSE list_index(list, i, j + 1)

RegressorName(n) == <<"Regressor1", "Regressor2", "Regressor3", "Regressor4", "Regressor5">>[n]

\* parse_series_specs: the SeriesSpecs object, or the exception raised
parse_series_specs(series_specs, name) ==
    IF series_specs.type = "str"
    THEN LET made == load_series_specs_from_json([type |-> series_specs.val.type,
                                                  keys |-> series_specs.val.keys])
         IN  IF made.kind # "ok" THEN [kind |-> made.kind, obj |-> {}]
             ELSE [kind |-> "ok",
                   obj |-> {SeriesSpecs__init__(made.made, series_specs.val.name, "None",
                                                NoTransformation, NoResamplingConfig,
                                                NoSeries)}]
    ELSE IF series_specs.type = "Series"
    THEN ObjectSeriesSpecs__init__(series_specs.val, name, "None", NoTransformation,
                                   NoResamplingConfig)
    ELSE [kind |-> "ok", obj |-> {series_specs.val}]

\* the list comprehension over the regressors, from position i on:
\* [kind, list], the parsed regressors or the first exception raised
RECURSIVE parse_regressors(_, _)
parse_regressors(regressors, i) ==
    IF i > Len(regressors) THEN [kind |-> "ok", list |-> <<>>]
    ELSE LET ix == list_index(regressors, i, 1)
         IN  IF ix < 0 THEN [kind |-> "ValueError", list |-> <<>>]
             ELSE LET parsed == parse_series_specs(regressors[i], RegressorName(ix + 1))
                  IN  IF parsed.kind # "ok" THEN [kind |-> parsed.kind, list |-> <<>>]
                      ELSE LET rest == parse_regressors(regressors, i + 1)
                           IN  IF rest.kind # "ok" THEN rest
                               ELSE [kind |-> "ok",
                                     list |-> <<CHOOSE o \in parsed.obj : TRUE>> \o rest.list]

\* a constructor that stores the default instead of the remodel_frequency given
ModelSpecs__init__default_remodeling(outcome_var, start_of_training, end_of_testing, frequency, horizon, lags, regressors, remodel_frequency, creation_time, now) ==
    LET start == IF start_of_training.kind = "str"
                 THEN dateutil_parse(start_of_training) ELSE start_of_training.t
        end == IF end_of_testing.kind = "str"
               THEN dateutil_parse(end_of_testing) ELSE end_of_testing.t
        parsed == parse_regressors(regressors, 1)
    IN  IF parsed.kind # "ok"
        THEN [kind |-> parsed.kind, obj |-> {}]
        ELSE IF ~WindowFitsFrequency(frequency, start, end)
        THEN [kind |-> "IncompatibleModelSpecs", obj |-> {}]
        ELSE [kind |-> "ok",
              obj |-> {[outcome_var |-> outcome_var,
                        frequency |-> frequency,
                        horizon |-> horizon,
                        lags |-> lags,
                        regressors |-> parsed.list,
                        start_of_training |-> start,
                        end_of_testing |-> end,
                        creation_time |-> IF creation_time = -1 THEN now ELSE creation_time,
                        remodel_frequency |-> DEFAULT_REMODELING_FREQUENCY]}]

\* ModelSpecs.__init__: the object, or the exception raised.  now is the
\* clock's reading, used when no creation_time is given (-1 stands for None).
ModelSpecs__init__(outcome_var, start_of_training, end_of_testing, frequency, horizon, lags, regressors, remodel_frequency, creation_time, now) ==
    LET start == IF start_of_training.kind = "str"
                 THEN dateutil_parse(start_of_training) ELSE start_of_training.t
        end == IF end_of_testing.kind = "str"
               THEN dateutil_parse(end_of_testing) ELSE end_of_testing.t
        parsed == parse_regressors(regressors, 1)
    IN  IF parsed.kind # "ok"
        THEN [kind |-> parsed.kind, obj |-> {}]
        ELSE IF ~WindowFitsFrequency(frequency, start, end)
        THEN [kind |-> "IncompatibleModelSpecs", obj |-> {}]
        ELSE [kind |-> "ok",
              obj |-> {[outcome_var |-> outcome_var,
                        frequency |-> frequency,
                        horizon |-> horizon,
                        lags |-> lags,
                        regressors |-> parsed.list,
                        start_of_training |-> start,
                        end_of_testing |-> end,
                        creation_time |-> IF creation_time = -1 THEN now ELSE creation_time,
                        remodel_frequency |-> remodel_frequency]}]

DatetimeArgs == {Datetime(t) : t \in 0..MaxTime} \cup {DatetimeString(t) : t \in 0..MaxTime}

MSInit ==
    /\ ctor_args \in [start_of_training : DatetimeArgs, end_of_testing : DatetimeArgs,
                      frequency : 1..MaxFreq, regressors : {<<>>}]
    /\ ctor_out = "pending"
    /\ model_specs = {}
    /\ LoadIdle /\ DBIdle /\ JsonIdle /\ RollIdle /\ OneIdle

Construct ==
    /\ ctor_out = "pending"
    /\ LET r == ModelSpecs__init__("my_outcome", ctor_args.start_of_training,
                                   ctor_args.end_of_testing, ctor_args.frequency,
                                   2, <<1, 2>>, ctor_args.regressors,
                                   DEFAULT_REMODELING_FREQUENCY, -1,
                                   MaxTime)
       IN  /\ ctor_out' = r.kind
           /\ model_specs' = model_specs \cup r.obj
    /\ UNCHANGED <<ctor_args, loadVars, dbVars, jsonVars, rollVars, oneVars>>

MSNext == Construct

SpecModelSpecs == MSInit /\ [][MSNext]_vars

ArgTime(arg) == IF arg.kind = "str" THEN arg.text[2] ELSE arg.t

IsMultiple(d, f) == \E k \in (0 - MaxTime - 1)..(MaxTime + 1) : d = k * f

ArgsAligned ==
    IsMultiple(ArgTime(ctor_args.end_of_testing) - ArgTime(ctor_args.start_of_training),
               ctor_args.frequency)

(* C4: the ModelSpecs constructor succeeds only if end_of_testing minus     *)
(* start_of_training is an exact integer multiple of frequency; otherwise   *)
(* it raises IncompatibleModelSpecs and no object exists afterwards; every  *)
(* existing ModelSpecs has an aligned window.                               *)
C4_ConstructionChecksWindow ==
    /\ \A ms \in model_specs :
          IsMultiple(ms.end_of_testing - ms.start_of_training, ms.frequency)
    /\ ctor_out # "pending" =>
          /\ ctor_out = "ok" <=> ArgsAligned
          /\ ~ArgsAligned => (ctor_out = "IncompatibleModelSpecs" /\ model_specs = {})
          /\ ArgsAligned => Cardinality(model_specs) = 1

\* a constructor call with a window that is no multiple of the frequency has raised
C4_MisalignedRejected ==
    /\ ctor_out = "IncompatibleModelSpecs"
    /\ ctor_args.frequency = 2
    /\ ArgTime(ctor_args.end_of_testing) - ArgTime(ctor_args.start_of_training) = 3
    /\ ctor_args.start_of_training.kind = "str"

(***************************************************************************)
(* Decoding as a state machine: a JSON object is decoded once.             *)
(***************************************************************************)
JsonKeys == {"name", "data", "original_tz", "file_path", "hours"}

JsonInit ==
    /\ json_repr \in {<<r>> : r \in [type : GlobalNames \cup {"NoSuchSeriesSpecs"},
                                     keys : SUBSET JsonKeys]}
    /\ decoded = <<>>
    /\ LoadIdle /\ DBIdle /\ MSIdle /\ RollIdle /\ OneIdle

Decode ==
    /\ decoded = <<>>
    /\ decoded' = <<load_series_specs_from_json(json_repr[1])>>
    /\ UNCHANGED <<json_repr, loadVars, dbVars, msVars, rollVars, oneVars>>

JsonNext == Decode

SpecJson == JsonInit /\ [][JsonNext]_vars

(* C10: decoding a serialized SeriesSpecs whose __series_type__ is not one  *)
(* of the known series-source kinds fails with UnknownSeriesType and        *)
(* constructs no object; a discriminator naming another module-level name   *)
(* is rejected, not resolved and called.  The code breaks this: it looks    *)
(* the name up in globals() and calls whatever it finds.                    *)
C10_UnknownTypeRejected ==
    (decoded # <<>> /\ json_repr[1].type \notin SeriesTypes) =>
        (decoded[1].kind = "UnknownSeriesType" /\ decoded[1].made = "none")

\* a discriminator naming a module-level callable that is no series type
\* was resolved and called, and returned an object
C10_OtherGlobalCalled ==
    /\ decoded # <<>>
    /\ json_repr[1].type = "timedelta"
    /\ decoded[1] = Decoded("ok", "timedelta")

(***************************************************************************)
(* Forecasting on the tests' dummy model state.  Times are hours after     *)
(* DATA_START and durations are hours; Hours turns them into the ticks of  *)
(* a series index (30 minutes).                                            *)
(***************************************************************************)
Hours(h) == 2 * h

DEFAULT_RATIO_TRAINING_TESTING_DATA == <<2, 3>>

CoefMax == 3

dummy_lags == <<1, 2>>
dummy_frequency == 1
dummy_horizon_none == 0 * 1
dummy_horizon == 2
dummy_remodel_frequency_halved == 48 \div 2
dummy_remodel_frequency == 48

Constructed(r) == CHOOSE o \in r.obj : TRUE

\* pd.date_range(data_start, data_start + data_range_in_hours, freq="1H"):
\* both ends included
dt_range(data_range_in_hours) == RegularIndex(0, Hours(1), data_range_in_hours + 1)

\* outcome_values: 0, and each next value one more than the one before
outcome_series(data_range_in_hours) ==
    LET ix == dt_range(data_range_in_hours)
    IN  Series(TRUE, "UTC", Hours(1), ix, [i \in 1..Len(ix) |-> Num(i - 1)])

\* regressor_values: 5 throughout
regressor_series(data_range_in_hours) ==
    LET ix == dt_range(data_range_in_hours)
    IN  Series(TRUE, "UTC", Hours(1), ix, [i \in 1..Len(ix) |-> Num(5)])

\* the ModelSpecs create_dummy_model_state builds, from the raw regressor series
dummy_specs(data_range_in_hours, outcome_feature_transformation, now) ==
    Constructed(ModelSpecs__init__(
        Constructed(ObjectSeriesSpecs__init__(outcome_series(data_range_in_hours),
            "my_outcome", "None", outcome_feature_transformation, NoResamplingConfig)),
        Datetime(2), Datetime(data_range_in_hours \div 3),
        dummy_frequency, dummy_horizon, dummy_lags,
        <<PySeries(1, regressor_series(data_range_in_hours))>>,
        dummy_remodel_frequency, -1, now))

(***************************************************************************)
(* The feature frame.  A row holds the outcome (<<>> where the series has  *)
(* no value), the lagged outcomes by column number and the regressors.     *)
(***************************************************************************)
HasValue(series, t) == \E i \in 1..Len(series.idx) : series.idx[i] = Hours(t)

ValueAt(series, t) == series.vals[CHOOSE i \in 1..Len(series.idx) : series.idx[i] = Hours(t)].n

\* the columns my_outcome_l2 and my_outcome_l3 of lags 1 and 2 at a horizon
\* of two frequency steps
lag_columns(ms) ==
    {ms.lags[i] + (ms.horizon \div ms.frequency) - 1 : i \in 1..Len(ms.lags)}

loaded(series_specs, ms) ==
    SeriesSpecs_load_series(series_specs, Hours(ms.frequency)).out.series

RECURSIVE loaded_all(_, _)
loaded_all(series_specs, ms) ==
    IF series_specs = <<>> THEN <<>>
    ELSE <<loaded(Head(series_specs), ms)>> \o loaded_all(Tail(series_specs), ms)

\* the frame of the loaded series: a row for every timestamp that has all
\* its lagged outcomes and all its regressors
feature_frame(outcome, regs, cols) ==
    LET last == outcome.idx[Len(outcome.idx)] \div Hours(1)
        complete(t) == /\ \A k \in cols : HasValue(outcome, t - k)
                       /\ \A j \in 1..Len(regs) : HasValue(regs[j], t)
        stamps == {t \in 0..(last + 4) : complete(t)}
    IN  [t \in stamps |->
            [y |-> IF HasValue(outcome, t) THEN <<ValueAt(outcome, t)>> ELSE <<>>,
             lags |-> [k \in cols |-> ValueAt(outcome, t - k)],
             regs |-> [j \in 1..Len(regs) |-> ValueAt(regs[j], t)]]]

\* each series is loaded once
construct_features(ms) ==
    CHOOSE frame \in {feature_frame(outcome, regs, lag_columns(ms)) :
                         outcome \in {loaded(ms.outcome_var, ms)},
                         regs \in {loaded_all(ms.regressors, ms)}} : TRUE

(***************************************************************************)
(* The model capability: a linear model, fitted by least squares.  A fit   *)
(* returns coefficients that reproduce every training row; where several   *)
(* do, any of them.                                                        *)
(***************************************************************************)
RECURSIVE SumOver(_, _)
SumOver(f, S) ==
    IF S = {} THEN 0
    ELSE LET x == CHOOSE x \in S : TRUE IN f[x] + SumOver(f, S \ {x})

predict(m, row) ==
    SumOver([k \in DOMAIN row.lags |-> m.lags[k] * row.lags[k]], DOMAIN row.lags)
    + SumOver([j \in DOMAIN row.regs |-> m.regs[j] * row.regs[j]], DOMAIN row.regs)

Coefs == (0 - CoefMax)..CoefMax

fit(frame, rows, ms) ==
    IF rows = {} THEN {}
    ELSE {m \in [lags : [lag_columns(ms) -> Coefs],
                 regs : [1..Len(ms.regressors) -> Coefs]] :
             \A t \in rows : predict(m, frame[t]) = frame[t].y[1]}

\* the rows of the training window [start_of_training, cutoff)
training_rows(frame, ms) ==
    {t \in DOMAIN frame :
        /\ frame[t].y # <<>>
        /\ ms.start_of_training <= t
        /\ DEFAULT_RATIO_TRAINING_TESTING_DATA[2] * (t - ms.start_of_training)
             < DEFAULT_RATIO_TRAINING_TESTING_DATA[1]
                 * (ms.end_of_testing - ms.start_of_training)}

\* the rows before a tick
rows_before(frame, t) == {u \in DOMAIN frame : frame[u].y # <<>> /\ u < t}

create_fitted_model(ms) ==
    UNION {fit(frame, training_rows(frame, ms), ms) : frame \in {construct_features(ms)}}

make_forecast_for(ms, row, m) ==
    back_transform(ms.outcome_var.transformation, predict(m, row))

(***************************************************************************)
(* make_rolling_forecasts(start, end, specs).  The call gets no model: the *)
(* first tick that can be forecast fits one on the specs' training window, *)
(* and a later tick fits anew, on the rows before it, once                 *)
(* remodel_frequency has passed since the last fit.                        *)
(***************************************************************************)
RollingScenarios ==
    {<<24, 3, 26>>, <<24, 1, 8>>, <<192, 70, 190>>, <<192, 96, 190>>, <<192, 70, 100>>}

\* what tz_aware_utc_now() reads when the specs are made
ClockReadings == {0, 8760}

RollingInit ==
    /\ rolling \in {<<[start |-> sc[2], end |-> sc[3],
                       specs |-> dummy_specs(sc[1], tr, now)]>> :
                        sc \in RollingScenarios, tr \in Transformations, now \in ClockReadings}
    /\ features = <<>> /\ time_step = 0 /\ model = <<>>
    /\ forecasts = <<>> /\ log = <<>> /\ rolling_pc = "call"
    /\ LoadIdle /\ DBIdle /\ MSIdle /\ JsonIdle /\ OneIdle

\* the feature frame is computed once, up front
StartRolling ==
    /\ rolling_pc = "call"
    /\ features' = construct_features(rolling[1].specs)
    /\ time_step' = rolling[1].start
    /\ rolling_pc' = "loop"
    /\ UNCHANGED <<rolling, model, forecasts, log, loadVars, dbVars, msVars, jsonVars, oneVars>>

\* one pass of the loop over the ticks
RollingStep ==
    /\ rolling_pc = "loop"
    /\ time_step < rolling[1].end
    /\ LET ms == rolling[1].specs
           due == \/ model = <<>>
                  \/ time_step - ms.creation_time >= ms.remodel_frequency
           rows == IF model = <<>> THEN training_rows(features, ms)
                   ELSE rows_before(features, time_step)
           candidates == IF due THEN fit(features, rows, ms) ELSE {model[1]}
       IN  IF time_step \notin DOMAIN features
           THEN \* no complete row for this tick: it is skipped
                /\ time_step' = time_step + ms.frequency
                /\ UNCHANGED <<rolling, model, forecasts, log, rolling_pc>>
           ELSE IF candidates = {}
           THEN \* the fit fails
                /\ rolling_pc' = "failed"
                /\ UNCHANGED <<rolling, model, forecasts, log, time_step>>
           ELSE \E m \in candidates :
                /\ model' = <<m>>
                /\ log' = IF due THEN Append(log, [t |-> time_step, rows |-> rows]) ELSE log
                /\ rolling' = IF due
                              THEN <<[rolling[1] EXCEPT !.specs.creation_time = time_step]>>
                              ELSE rolling
                /\ forecasts' = Append(forecasts,
                      [t |-> time_step,
                       value |-> make_forecast_for(ms, features[time_step], m),
                       lag_times |-> {time_step - k : k \in lag_columns(ms)}])
                /\ time_step' = time_step + ms.frequency
                /\ UNCHANGED rolling_pc
    /\ UNCHANGED <<features, loadVars, dbVars, msVars, jsonVars, oneVars>>

\* the loop is over: the forecasts and the last ModelState are returned
RollingReturn ==
    /\ rolling_pc = "loop"
    /\ time_step >= rolling[1].end
    /\ rolling_pc' = "done"
    /\ UNCHANGED <<rolling, features, time_step, model, forecasts, log>>
    /\ UNCHANGED <<loadVars, dbVars, msVars, jsonVars, oneVars>>

RollingNext == StartRolling \/ RollingStep \/ RollingReturn

SpecRolling == RollingInit /\ [][RollingNext]_vars

(***************************************************************************)
(* make_forecast_for(specs, features, model) as the two single-forecast    *)
(* tests call it: on the dummy model state of 24 hours, with a feature row *)
(* the test supplies, its lag values forward-transformed when the outcome  *)
(* has a transformation.                                                   *)
(***************************************************************************)
MaxOffset == 12

LagValues == {892 + i : i \in (0 - MaxOffset)..MaxOffset}

feature_row(ms, l2, l3) ==
    LET tr == ms.outcome_var.transformation
        feature_data == IF tr.kind = "none" THEN <<Num(l3), Num(l2)>>
                        ELSE transform_series(tr, <<Num(l3), Num(l2)>>)
    IN  [y |-> <<>>,
         lags |-> [k \in lag_columns(ms) |->
                      IF k = 2 THEN feature_data[2].n ELSE feature_data[1].n],
         regs |-> <<5>>]

OneInit ==
    /\ fc_args \in UNION {{<<[specs |-> dummy_specs(24, tr, 0), l2 |-> x, model |-> m]>> :
                                x \in LagValues,
                                m \in create_fitted_model(dummy_specs(24, tr, 0))} :
                            tr \in Transformations}
    /\ fc = <<>>
    /\ LoadIdle /\ DBIdle /\ MSIdle /\ JsonIdle /\ RollIdle

MakeForecast ==
    /\ fc = <<>>
    /\ LET a == fc_args[1]
       IN  fc' = <<make_forecast_for(a.specs, feature_row(a.specs, a.l2, a.l2 - 1), a.model)>>
    /\ UNCHANGED <<fc_args, loadVars, dbVars, msVars, jsonVars, rollVars>>

OneNext == MakeForecast

SpecOneForecast == OneInit /\ [][OneNext]_vars

(***************************************************************************)
(* Properties of the rolling forecasts.                                    *)
(***************************************************************************)
Ticks == rolling[1].start..(rolling[1].end - 1)

ForecastsAt(t) == {i \in 1..Len(forecasts) : forecasts[i].t = t}

LagHistoryComplete(t) ==
    \A k \in lag_columns(rolling[1].specs) :
        HasValue(rolling[1].specs.outcome_var.data, t - k)

Chronological ==
    \A i, j \in 1..Len(forecasts) : i < j => forecasts[i].t < forecasts[j].t

IsRollingTest ==
    /\ rolling[1].start = 3 /\ rolling[1].end = 26
    /\ Len(rolling[1].specs.outcome_var.data.idx) = 25

(* C5: make_rolling_forecasts(start, end, specs) emits exactly one forecast *)
(* for each frequency tick t with start <= t < end whose lag history is     *)
(* complete (and none for any other tick), in strictly chronological order, *)
(* and each forecast equals the expected value of its tick: on the dummy    *)
(* series 0,1,2,... the forecast for hour h is h, for h = 3..25.  The run   *)
(* of test_rolling_forecast breaks this: hour 25 has its lag history but no *)
(* regressor value, and gets no forecast.                                   *)
C5_OneForecastPerCompleteTick ==
    rolling_pc = "done" =>
        /\ \A t \in Ticks :
              Cardinality(ForecastsAt(t)) = IF LagHistoryComplete(t) THEN 1 ELSE 0
        /\ Chronological
        /\ \A i \in 1..Len(forecasts) : forecasts[i].value = forecasts[i].t
        /\ IsRollingTest => \A h \in 3..25 : ForecastsAt(h) # {}

\* the run of test_rolling_forecast has ended with a forecast for hour 24
\* and none for hour 25, whose lag history is complete
C5_Hour25Skipped ==
    /\ rolling_pc = "done"
    /\ IsRollingTest
    /\ ForecastsAt(24) # {}
    /\ ForecastsAt(25) = {}
    /\ LagHistoryComplete(25)

\* the count test_rolling_forecast_with_refitting computes: the multiples
\* of remodel_frequency, listed until one reaches 190, that are at least 70
RECURSIVE expected_log_times(_, _)
expected_log_times(times, remodel_frequency_in_hours) ==
    IF times[Len(times)] < 190
    THEN expected_log_times(Append(times, times[Len(times)] + remodel_frequency_in_hours),
                            remodel_frequency_in_hours)
    ELSE times

expected_refits(remodel_frequency_in_hours) ==
    LET times == expected_log_times(<<remodel_frequency_in_hours>>, remodel_frequency_in_hours)
    IN  Cardinality({i \in 1..Len(times) : times[i] >= 70})

IsRefittingTest ==
    /\ rolling[1].start = 70 /\ rolling[1].end = 190
    /\ Len(rolling[1].specs.outcome_var.data.idx) = 193

PlainSpecs == dummy_specs(24, NoTransformation, 0)

(* C8: make_forecast_for returns the model's prediction with the outcome's *)
(* inverse transformation applied once when one is configured and unchanged *)
(* when none is: for a model trained on transformed outcomes and a row of   *)
(* forward-transformed lag values the result is on the original scale and   *)
(* equals the result of the untransformed setup on the untransformed row    *)
(* (894 for lag values 892 and 891).                                        *)
C8_ForecastOnOriginalScale ==
    fc # <<>> =>
        LET a == fc_args[1]
        IN  /\ \A m \in create_fitted_model(PlainSpecs) :
                  fc[1] = make_forecast_for(PlainSpecs,
                                            feature_row(PlainSpecs, a.l2, a.l2 - 1), m)
            /\ fc[1] = predict(a.model, feature_row(a.specs, a.l2, a.l2 - 1))
                          - a.specs.outcome_var.transformation.p
            /\ a.l2 = 892 => fc[1] = 894

\* the forecast of the test with the addition of 7 has been made
C8_TransformedForecastMade ==
    /\ fc = <<894>>
    /\ fc_args[1].l2 = 892
    /\ fc_args[1].specs.outcome_var.transformation = MyAdditionTransformation(7)
    /\ feature_row(fc_args[1].specs, 892, 891).lags[2] = 899

(***************************************************************************)
(* The refit trigger of the rolling forecasts.                             *)
(***************************************************************************)
\* a pass of the loop over one tick
ForecastPass == rolling_pc = "loop" /\ time_step < rolling[1].end /\ time_step' # time_step

Refits == Len(log') = Len(log) + 1

MaxRegressors == 3

RegressorPool ==
    {PySeries(1, regressor_series(1)), PySeries(2, regressor_series(1)),
     PySpecs(3, DFFileSeriesSpecs__init__(NoSeries, "temperature", "None",
                                          NoTransformation, NoResamplingConfig)),
     PySpecs(4, DFFileSeriesSpecs__init__(NoSeries, "wind", "None",
                                          NoTransformation, NoResamplingConfig)),
     PyStr([type |-> "DFFileSeriesSpecs", keys |-> {"file_path", "name"}, name |-> "solar"]),
     PyStr([type |-> "DFFileSeriesSpecs", keys |-> {"file_path", "name"}, name |-> "load"])}

RegInit ==
    /\ ctor_args \in [start_of_training : {Datetime(2)}, end_of_testing : {Datetime(8)},
                      frequency : {1},
                      regressors : SeqsUpTo(RegressorPool, MaxRegressors)]
    /\ ctor_out = "pending"
    /\ model_specs = {}
    /\ LoadIdle /\ DBIdle /\ JsonIdle /\ RollIdle /\ OneIdle

SpecRegressors == RegInit /\ [][MSNext]_vars

TheModelSpecs == CHOOSE o \in model_specs : TRUE

(* C12: regressor names are unique and ordered.  After ModelSpecs          *)
(* construction from any list of regressors (raw series, SeriesSpecs       *)
(* objects or JSON strings, the same object or equal elements possibly     *)
(* more than once) the regressors list has the length and the order of the *)
(* input and its names are pairwise distinct, the i-th raw series being    *)
(* named Regressor<i> (1-based).  The code breaks this: it numbers a       *)
(* regressor by regressors.index(r), the position of the first equal       *)
(* element.                                                                 *)
C12_RegressorNamesUniqueAndOrdered ==
    ctor_out = "ok" =>
        LET given == ctor_args.regressors
            made == TheModelSpecs.regressors
        IN  /\ Len(made) = Len(given)
            /\ \A i, j \in 1..Len(made) : i # j => made[i].name # made[j].name
            /\ \A i \in 1..Len(made) :
                  /\ given[i].type = "Series" =>
                        made[i].name = RegressorName(i) /\ made[i].data = given[i].val
                  /\ given[i].type = "SeriesSpecs" => made[i] = given[i].val
                  /\ given[i].type = "str" => made[i].name = given[i].val.name

\* a ModelSpecs was constructed from a list holding one pd.Series object
\* twice, and both regressors are named Regressor1
C12_SameSeriesTwice ==
    /\ ctor_out = "ok"
    /\ Len(ctor_args.regressors) = 2
    /\ ctor_args.regressors[1] = ctor_args.regressors[2]
    /\ ctor_args.regressors[1].type = "Series"
    /\ TheModelSpecs.regressors[1].name = "Regressor1"
    /\ TheModelSpecs.regressors[2].name = "Regressor1"

====
